---- MODULE Spec2Model ----
(***************************************************************************)
(* Model of the datadog_archives sink (src/src/sinks/datadog_archives.rs): *)
(* the record normalizer (DatadogArchivesEncoding), the object key         *)
(* generator, the three request builders (S3, GCS, Azure), and the batch   *)
(* accumulator and dispatcher they are wired to.                           *)
(*                                                                         *)
(* Strings are sequences of one-character strings, Option<T> is a sequence *)
(* of length 0 (None) or 1 (Some(x)).                                      *)
(***************************************************************************)
EXTENDS Integers, Sequences, FiniteSets, TLC

VARIABLES
    service,        \* DatadogArchivesSinkConfig::service
    key_prefix,     \* DatadogArchivesSinkConfig::key_prefix : Option<String>
    uuid_next,      \* number of UUIDs Uuid::new_v4 has handed out so far
    gen_in,         \* key generator harness: the arguments of each call
    gen_out,        \* key generator harness: the keys returned so far
    arrived,        \* number of events the sink has accepted
    open,           \* accumulator: the open batch of each partition key
    batches,        \* flushed batches, in flush order, each with its stage
    token,          \* status of each event's delivery token
    resolutions,    \* how many times each delivery token was resolved
    log_schema,     \* the global log schema: message, host, timestamp keys
    encoders,       \* the DatadogArchivesEncoding instances of the process
    now,            \* the clock Utc::now() reads, in milliseconds
    enc_by,         \* encoder harness: the encoder of the last call
    enc_in,         \* encoder harness: the events of the last call
    enc_out,        \* encoder harness: the lines the last call wrote
    ids,            \* every _id generated so far, with its encoder
    part_in,        \* partitioner harness: the events partitioned so far
    part_out,       \* partitioner harness: the partition key of each
    part_sent,      \* partitioner harness: the key of the batch encoded
    storage_class,  \* S3Options::storage_class, if the service is aws_s3
    sink,           \* the result of build_sink, once it has run
    calls,          \* each thread's call of generate_log_id, if it is in one
    taken           \* the values fetch_add has returned, in the order taken

vars == <<service, key_prefix, uuid_next, gen_in, gen_out,
          arrived, open, batches, token, resolutions,
          log_schema, encoders, now, enc_by, enc_in, enc_out, ids,
          part_in, part_out, part_sent, storage_class, sink, calls, taken>>

encVars == <<log_schema, encoders, now, enc_by, enc_in, enc_out, ids>>

sinkVars == <<arrived, open, batches, token, resolutions>>

partVars == <<part_in, part_out, part_sent>>

buildVars == <<storage_class, sink>>

callVars == <<calls, taken>>

(***************************************************************************)
(* Bounds of the model.                                                    *)
(***************************************************************************)
MaxPrefixLen == 3
MaxKeys == 2
MaxEvents == 2
MaxRetries == 1
TickSecs == 450
NumEncoders == 2
NumThreads == 2
SeqModulus == 3
MaxIds == 4
MaxTicks == 1
MaxParts == 3
StartTime == 61199999

(***************************************************************************)
(* Option and string helpers.                                              *)
(***************************************************************************)
None == <<>>
Some(x) == <<x>>

\* Option::unwrap_or_default for Option<String>
unwrap_or_default(o) == IF o = None THEN <<>> ELSE o[1]

contains(s, p) ==
    \E i \in 1..(Len(s) - Len(p) + 1) : SubSeq(s, i, i + Len(p) - 1) = p

\* str::replace: every non-overlapping match of `from`, scanning left to
\* right, is replaced by `to`; the scan resumes after the match.
\* rest[i] is the result for the part of s that starts at index i: the
\* text up to the next match is kept, the match replaced.
replace(s, from, to) ==
    LET n == Len(s)
        m == Len(from)
        matches == {j \in 1..(n - m + 1) : SubSeq(s, j, j + m - 1) = from}
        rest[i \in 1..(n + 1)] ==
            LET ahead == {j \in matches : j >= i}
            IN  IF ahead = {} THEN SubSeq(s, i, n)
                ELSE LET j == CHOOSE x \in ahead : \A y \in ahead : x <= y
                     IN  SubSeq(s, i, j - 1) \o to \o rest[j + m]
    IN  rest[1]

SLASH == <<"/">>
SLASHSLASH == <<"/", "/">>
ARCHIVE_ == <<"a", "r", "c", "h", "i", "v", "e", "_">>
DOT == <<".">>
JSON_GZ == <<"j", "s", "o", "n", ".", "g", "z">>

HexDigits == <<"0", "1", "2", "3", "4", "5", "6", "7",
               "8", "9", "a", "b", "c", "d", "e", "f">>

\* n written with `width` lower-case hexadecimal digits
RECURSIVE Hex(_, _)
Hex(n, width) ==
    IF width = 0 THEN <<>>
    ELSE Hex(n \div 16, width - 1) \o <<HexDigits[(n % 16) + 1]>>

\* Uuid::to_string: the hyphenated 8-4-4-4-12 form. The n-th UUID handed out
\* is modelled as the version-4 UUID whose last group is n.
UuidToString(n) ==
    Hex(0, 8) \o <<"-">> \o Hex(0, 4) \o <<"-">> \o <<"4">> \o Hex(0, 3)
        \o <<"-">> \o <<"8">> \o Hex(0, 3) \o <<"-">> \o Hex(n, 12)

\* KEY_TEMPLATE rendered for two adjacent UTC hours of 2021-08-23
PK16 == <<"/", "d", "t", "=", "2", "0", "2", "1", "0", "8", "2", "3",
          "/", "h", "o", "u", "r", "=", "1", "6", "/">>
PK17 == <<"/", "d", "t", "=", "2", "0", "2", "1", "0", "8", "2", "3",
          "/", "h", "o", "u", "r", "=", "1", "7", "/">>
PartitionKeys == {PK16, PK17}

(***************************************************************************)
(* generate_object_key                                                     *)
(***************************************************************************)
\* a format string that puts the partition key before the prefix
KeyFormat_partition_first(prefix, partition_key, filename) ==
    partition_key \o SLASH \o prefix \o SLASH \o ARCHIVE_ \o filename
        \o DOT \o JSON_GZ

\* format!("{}/{}/archive_{}.{}", prefix, partition_key, filename, "json.gz")
KeyFormat(prefix, partition_key, filename) ==
    prefix \o SLASH \o partition_key \o SLASH \o ARCHIVE_ \o filename
        \o DOT \o JSON_GZ

\* a generator that names the object after the partition alone
generate_object_key_no_uuid(prefix_opt, partition_key, uuid) ==
    replace(KeyFormat(unwrap_or_default(prefix_opt), partition_key, <<>>),
            SLASHSLASH, SLASH)

\* `uuid` is the value Uuid::new_v4() returns in this call
generate_object_key(prefix_opt, partition_key, uuid) ==
    replace(KeyFormat(unwrap_or_default(prefix_opt), partition_key,
                      UuidToString(uuid)),
            SLASHSLASH, SLASH)

(***************************************************************************)
(* Batch settings: DatadogArchivesDefaultBatchSettings and the batcher     *)
(* settings every build_*_sink derives from them.                          *)
(***************************************************************************)
MAX_EVENTS == None

\* a policy without a byte limit
MAX_BYTES_unlimited == None

MAX_BYTES == Some(100000000)

\* a timeout of a minute and a half instead of a quarter of an hour
TIMEOUT_SECS_short == 900 \div 10

TIMEOUT_SECS == 900

\* BatchConfig::<DatadogArchivesDefaultBatchSettings>::default()
\*     .into_batcher_settings()
batcher_settings ==
    [size_limit |-> MAX_BYTES, item_limit |-> MAX_EVENTS,
     timeout |-> TIMEOUT_SECS]

(***************************************************************************)
(* Events and delivery tokens. An event is [id, size, finalizers]: size is *)
(* its estimated encoded size, finalizers the set of delivery tokens it    *)
(* carries. Event i arrives carrying token i.                              *)
(***************************************************************************)
EventSizes == {50000000, 100000000}

\* the i-th event of the stream: its size estimate, the partition key the
\* partitioner gives it, and its delivery token
NewEvent(i, s, k) ==
    [id |-> i, size |-> s, partition |-> k, finalizers |-> {i}]

\* Finalizable::take_finalizers on Vec<Event>: the tokens taken ...
TakeFinalizers(events) ==
    UNION {events[i].finalizers : i \in 1..Len(events)}

\* ... and the events it leaves behind
WithoutFinalizers(events) ==
    [i \in 1..Len(events) |-> [events[i] EXCEPT !.finalizers = {}]]

RECURSIVE SumSizes(_)
SumSizes(events) ==
    IF events = <<>> THEN 0 ELSE Head(events).size + SumSizes(Tail(events))

\* RequestMetadataBuilder::from_events
RequestMetadataBuilder_from_events(events) ==
    [event_count |-> Len(events), events_byte_size |-> SumSizes(events)]

\* RequestMetadataBuilder::build
RequestMetadataBuilder_build(builder, payload) ==
    [event_count |-> builder.event_count,
     events_byte_size |-> builder.events_byte_size,
     request_encoded_size |-> Len(payload)]

(***************************************************************************)
(* Building the sink: the configured service selects the builder, and the  *)
(* S3 builder refuses the storage classes that cannot be read back at once.*)
(***************************************************************************)
S3StorageClasses ==
    {"Standard", "StandardIa", "IntelligentTiering", "OnezoneIa",
     "ReducedRedundancy", "DeepArchive", "Glacier"}

Ok(x) == [ok |-> TRUE, value |-> x]

Err(e) == [ok |-> FALSE, error |-> e]

\* ConfigError and its Display: the message and the value it names
UnsupportedService(svc) == <<"Unsupported service: ", svc>>

UnsupportedStorageClass(class) == <<"Unsupported storage class: ", class>>

\* build_s3_sink that refuses Glacier only
build_s3_sink_accepts_deep_archive(s3_options) ==
    IF s3_options.storage_class = "Glacier"
    THEN Err(UnsupportedStorageClass(s3_options.storage_class))
    ELSE Ok("aws_s3")

build_s3_sink(s3_options) ==
    IF s3_options.storage_class \in {"DeepArchive", "Glacier"}
    THEN Err(UnsupportedStorageClass(s3_options.storage_class))
    ELSE Ok("aws_s3")

build_sink(svc, class_opt) ==
    CASE svc = "aws_s3" -> build_s3_sink([storage_class |-> class_opt[1]])
      [] svc = "azure_blob" -> Ok("azure_blob")
      [] svc = "gcp_cloud_storage" -> Ok("gcp_cloud_storage")
      [] OTHER -> Err(UnsupportedService(svc))

\* a sink exists: build_sink has run and returned Ok
SinkRunning == sink # None /\ sink[1].ok

\* the topology builds the sink from its configuration
BuildSink ==
    /\ sink = None
    /\ sink' = Some(build_sink(service, storage_class))
    /\ UNCHANGED <<storage_class, callVars, partVars, encVars, service, key_prefix,
                   uuid_next, gen_in, gen_out, sinkVars>>

(***************************************************************************)
(* Batch accumulator, one open batch per partition key.                    *)
(***************************************************************************)
EmptyBatch == [events |-> <<>>, size |-> 0, age |-> 0]

IsOpen(k) == open[k].events # <<>>

\* size trigger: the running size estimate has reached the byte limit, or
\* the event count the item limit
IsFull(b) ==
    \/ /\ batcher_settings.size_limit # None
       /\ b.size >= batcher_settings.size_limit[1]
    \/ /\ batcher_settings.item_limit # None
       /\ Len(b.events) >= batcher_settings.item_limit[1]

\* time trigger
IsExpired(b) == b.events # <<>> /\ b.age >= batcher_settings.timeout

Flushed(k, cause) ==
    [pkey |-> k, events |-> open[k].events,
     tokens |-> TakeFinalizers(open[k].events),
     size |-> open[k].size, age |-> open[k].age, cause |-> cause,
     stage |-> "flushed", metadata |-> None, split_events |-> None,
     compression |-> None, request |-> None, attempts |-> 0, writes |-> <<>>]

\* an event with partition key k and size estimate s enters the sink
Arrive(k, s) ==
    /\ SinkRunning
    /\ arrived < MaxEvents
    /\ ~IsFull(open[k])
    /\ ~IsExpired(open[k])
    /\ arrived' = arrived + 1
    /\ open' = [open EXCEPT ![k] =
                  [events |-> Append(@.events, NewEvent(arrived + 1, s, k)),
                   size |-> @.size + s,
                   age |-> @.age]]
    /\ token' = [token EXCEPT ![arrived + 1] = "pending"]
    /\ UNCHANGED <<partVars, buildVars, callVars, encVars, service, key_prefix, uuid_next, gen_in, gen_out,
                   batches, resolutions>>

\* a flush by size that closes the open batches of all keys
FlushBySize_resets_all(k) ==
    /\ IsOpen(k)
    /\ IsFull(open[k])
    /\ batches' = Append(batches, Flushed(k, "size"))
    /\ open' = [j \in PartitionKeys |-> EmptyBatch]
    /\ UNCHANGED <<partVars, buildVars, callVars, encVars, service, key_prefix, uuid_next, gen_in, gen_out,
                   arrived, token, resolutions>>

FlushBySize(k) ==
    /\ IsOpen(k)
    /\ IsFull(open[k])
    /\ batches' = Append(batches, Flushed(k, "size"))
    /\ open' = [open EXCEPT ![k] = EmptyBatch]
    /\ UNCHANGED <<partVars, buildVars, callVars, encVars, service, key_prefix, uuid_next, gen_in, gen_out,
                   arrived, token, resolutions>>

FlushByTimeout(k) ==
    /\ IsExpired(open[k])
    /\ batches' = Append(batches, Flushed(k, "timeout"))
    /\ open' = [open EXCEPT ![k] = EmptyBatch]
    /\ UNCHANGED <<partVars, buildVars, callVars, encVars, service, key_prefix, uuid_next, gen_in, gen_out,
                   arrived, token, resolutions>>

\* TickSecs seconds pass; a timer that is due fires before more time passes
Tick ==
    /\ \E k \in PartitionKeys : IsOpen(k)
    /\ \A k \in PartitionKeys : ~IsExpired(open[k])
    /\ open' = [k \in PartitionKeys |->
                  IF IsOpen(k)
                  THEN [open[k] EXCEPT !.age = @ + TickSecs]
                  ELSE open[k]]
    /\ UNCHANGED <<partVars, buildVars, callVars, encVars, service, key_prefix, uuid_next, gen_in, gen_out,
                   arrived, batches, token, resolutions>>

(***************************************************************************)
(* Request builders. `self` is the builder, `uuid` the value Uuid::new_v4  *)
(* returns inside generate_object_key.                                     *)
(***************************************************************************)
\* Compression::None
DEFAULT_COMPRESSION_none == [algorithm |-> "none", level |-> "default"]

\* Compression::gzip_default()
DEFAULT_COMPRESSION == [algorithm |-> "gzip", level |-> "default"]

\* Compression::content_encoding
content_encoding(c) ==
    IF c.algorithm = "none" THEN None ELSE Some(c.algorithm)

\* EncodeResult::uncompressed(payload) and EncodeResult::into_payload
EncodeResult(payload) ==
    [payload |-> payload, uncompressed_byte_size |-> Len(payload)]

into_payload(result) == result.payload

\* S3KeyPartitioner::new(Template::try_from(KEY_TEMPLATE), None): the
\* partition key it yields for an event whose template renders to pk
S3PartitionKey(pk) == [key_prefix |-> pk, ssekms_key_id |-> None]

\* DatadogS3RequestBuilder::new and the struct literals of build_gcs_sink
\* and build_azure_sink
RequestBuilder(svc, bucket, prefix) ==
    CASE svc = "aws_s3" ->
           [bucket |-> bucket, key_prefix |-> prefix]
      [] svc = "gcp_cloud_storage" ->
           [bucket |-> bucket, key_prefix |-> prefix,
            compression |-> DEFAULT_COMPRESSION]
      [] svc = "azure_blob" ->
           [container_name |-> bucket, blob_prefix |-> prefix]

\* ---- S3 ----
\* a split that takes the tokens of the first event only
S3SplitInput_first_only(input) ==
    LET partition_key == input[1]
        events == input[2]
        finalizers == IF events = <<>> THEN {} ELSE events[1].finalizers
        rest == [i \in 1..Len(events) |->
                   IF i = 1 THEN [events[i] EXCEPT !.finalizers = {}]
                   ELSE events[i]]
    IN  [metadata |-> [partition_key |-> partition_key,
                       s3_key |-> partition_key.key_prefix,
                       finalizers |-> finalizers],
         builder |-> RequestMetadataBuilder_from_events(rest),
         events |-> rest]

S3SplitInput(input) ==
    LET partition_key == input[1]
        finalizers == TakeFinalizers(input[2])
        events == WithoutFinalizers(input[2])
        s3_key_prefix == partition_key.key_prefix
    IN  [metadata |-> [partition_key |-> partition_key,
                       s3_key |-> s3_key_prefix,
                       finalizers |-> finalizers],
         builder |-> RequestMetadataBuilder_from_events(events),
         events |-> events]

\* a build that names every object with the same UUID
S3BuildRequest_same_uuid(self, metadata, request_metadata, payload, uuid) ==
    LET md == [metadata EXCEPT
                 !.s3_key = generate_object_key(self.key_prefix,
                                                metadata.s3_key, 0)]
    IN  [body |-> into_payload(payload),
         bucket |-> self.bucket,
         metadata |-> md,
         request_metadata |-> request_metadata,
         content_encoding |-> content_encoding(DEFAULT_COMPRESSION),
         options |-> [content_encoding |-> None, content_type |-> None]]

S3BuildRequest(self, metadata, request_metadata, payload, uuid) ==
    LET md == [metadata EXCEPT
                 !.s3_key = generate_object_key(self.key_prefix,
                                                metadata.s3_key, uuid)]
    IN  [body |-> into_payload(payload),
         bucket |-> self.bucket,
         metadata |-> md,
         request_metadata |-> request_metadata,
         content_encoding |-> content_encoding(DEFAULT_COMPRESSION),
         options |-> [content_encoding |-> None, content_type |-> None]]

\* ---- GCS ----
\* a split that leaves the events their tokens
GcsSplitInput_keeps_tokens(input) ==
    LET partition_key == input[1]
        events == input[2]
    IN  [metadata |-> <<partition_key, {}>>,
         builder |-> RequestMetadataBuilder_from_events(events),
         events |-> events]

GcsSplitInput(input) ==
    LET partition_key == input[1]
        metadata_builder == RequestMetadataBuilder_from_events(input[2])
        finalizers == TakeFinalizers(input[2])
        events == WithoutFinalizers(input[2])
    IN  [metadata |-> <<partition_key, finalizers>>,
         builder |-> metadata_builder,
         events |-> events]

\* a build that packs the request without the batch's tokens
GcsBuildRequest_no_tokens(self, dd_metadata, metadata, payload, uuid) ==
    [key |-> generate_object_key(self.key_prefix, dd_metadata[1], uuid),
     body |-> into_payload(payload),
     finalizers |-> {},
     settings |-> [content_type |-> "application/x-ndjson",
                   content_encoding |-> content_encoding(DEFAULT_COMPRESSION)],
     metadata |-> metadata]

GcsBuildRequest(self, dd_metadata, metadata, payload, uuid) ==
    LET key0 == dd_metadata[1]
        finalizers == dd_metadata[2]
        key == generate_object_key(self.key_prefix, key0, uuid)
        body == into_payload(payload)
    IN  [key |-> key,
         body |-> body,
         finalizers |-> finalizers,
         settings |-> [content_type |-> "application/x-ndjson",
                       content_encoding |->
                           content_encoding(DEFAULT_COMPRESSION)],
         metadata |-> metadata]

\* ---- Azure ----
\* a split that copies the tokens and leaves them on the events as well
AzureSplitInput_copies_tokens(input) ==
    LET partition_key == input[1]
        events == input[2]
    IN  [metadata |-> [partition_key |-> partition_key,
                       count |-> Len(events),
                       byte_size |-> SumSizes(events),
                       finalizers |-> TakeFinalizers(events)],
         builder |-> RequestMetadataBuilder_from_events(events),
         events |-> events]

AzureSplitInput(input) ==
    LET partition_key == input[1]
        finalizers == TakeFinalizers(input[2])
        events == WithoutFinalizers(input[2])
        metadata == [partition_key |-> partition_key,
                     count |-> Len(events),
                     byte_size |-> SumSizes(events),
                     finalizers |-> finalizers]
    IN  [metadata |-> metadata,
         builder |-> RequestMetadataBuilder_from_events(events),
         events |-> events]

AzureBuildRequest(self, metadata, request_metadata, payload, uuid) ==
    LET md == [metadata EXCEPT
                 !.partition_key =
                     generate_object_key(self.blob_prefix,
                                         metadata.partition_key, uuid)]
    IN  [blob_data |-> into_payload(payload),
         content_encoding |-> content_encoding(DEFAULT_COMPRESSION),
         content_type |-> "application/gzip",
         metadata |-> md,
         request_metadata |-> request_metadata]

\* ---- the builder the configured service selects (build_sink) ----
Services == {"aws_s3", "azure_blob", "gcp_cloud_storage"}

split_input(svc, pk, events) ==
    CASE svc = "aws_s3" -> S3SplitInput(<<S3PartitionKey(pk), events>>)
      [] svc = "gcp_cloud_storage" -> GcsSplitInput(<<pk, events>>)
      [] svc = "azure_blob" -> AzureSplitInput(<<pk, events>>)

build_request(svc, self, metadata, request_metadata, payload, uuid) ==
    CASE svc = "aws_s3" ->
           S3BuildRequest(self, metadata, request_metadata, payload, uuid)
      [] svc = "gcp_cloud_storage" ->
           GcsBuildRequest(self, metadata, request_metadata, payload, uuid)
      [] svc = "azure_blob" ->
           AzureBuildRequest(self, metadata, request_metadata, payload, uuid)

\* RequestBuilder::compression of the three builders
compression(svc, self) ==
    CASE svc = "aws_s3" -> DEFAULT_COMPRESSION
      [] svc = "gcp_cloud_storage" -> self.compression
      [] svc = "azure_blob" -> DEFAULT_COMPRESSION

\* the tokens a split's metadata holds
MetadataFinalizers(svc, metadata) ==
    IF svc = "gcp_cloud_storage" THEN metadata[2] ELSE metadata.finalizers

\* the object key and the tokens of a built request
RequestKey(svc, req) ==
    CASE svc = "aws_s3" -> req.metadata.s3_key
      [] svc = "gcp_cloud_storage" -> req.key
      [] svc = "azure_blob" -> req.metadata.partition_key

RequestFinalizers(svc, req) ==
    IF svc = "gcp_cloud_storage" THEN req.finalizers
    ELSE req.metadata.finalizers

RequestContentEncoding(svc, req) ==
    IF svc = "gcp_cloud_storage" THEN req.settings.content_encoding
    ELSE req.content_encoding

(***************************************************************************)
(* The sink pipeline behind the accumulator: each flushed batch is split,  *)
(* encoded and built into a request (in flush order), and the dispatcher   *)
(* writes the request and resolves its delivery tokens. A batch record's   *)
(* metadata and split_events keep what split_input returned.               *)
(***************************************************************************)
BUCKET == <<"d", "d", "-", "l", "o", "g", "s">>

Batch(b) == batches[b]

\* tokens in A are resolved with statusA, then those in B with statusB
ResolveBoth(A, statusA, B, statusB) ==
    /\ token' = [t \in DOMAIN token |->
                   IF t \in B THEN statusB
                   ELSE IF t \in A THEN statusA ELSE token[t]]
    /\ resolutions' = [t \in DOMAIN resolutions |->
                         resolutions[t] + (IF t \in A THEN 1 ELSE 0)
                                        + (IF t \in B THEN 1 ELSE 0)]

Resolve(A, status) == ResolveBoth({}, status, A, status)

\* the outcomes a token can get when the event carrying it is dropped
\* without an explicit outcome
DropOutcomes(released) ==
    IF released = {} THEN {"delivered"} ELSE {"delivered", "failed"}

\* the encoded payload of the split events: one line per event
Encoded(events) == [i \in 1..Len(events) |-> events[i].id]

\* The request builder stage takes the oldest flushed batch: split_input,
\* then the encoder consumes the events split_input returned (a token still
\* on one of them is released with the event), then build_request; the
\* request goes to the dispatcher, which starts the write.
BuildRequest(b) ==
    /\ Batch(b).stage = "flushed"
    /\ \A j \in 1..(b - 1) : Batch(j).stage # "flushed"
    /\ LET self == RequestBuilder(service, BUCKET, key_prefix)
           r == split_input(service, Batch(b).pkey, Batch(b).events)
           compressor == compression(service, self)
           bytes == Encoded(r.events)
           payload == EncodeResult(bytes)
           request_metadata == RequestMetadataBuilder_build(r.builder, bytes)
           req == build_request(service, self, r.metadata, request_metadata,
                                payload, uuid_next)
           released == TakeFinalizers(r.events)
       IN  /\ batches' = [batches EXCEPT ![b] =
                            [@ EXCEPT !.stage = "inflight",
                                      !.attempts = 1,
                                      !.metadata = Some(r.metadata),
                                      !.split_events = Some(r.events),
                                      !.compression = Some(compressor),
                                      !.request = Some(req),
                                      !.writes = <<RequestKey(service, req)>>]]
           /\ \E outcome \in DropOutcomes(released) :
                Resolve(released, outcome)
    /\ uuid_next' = uuid_next + 1
    /\ UNCHANGED <<partVars, buildVars, callVars, encVars, service, key_prefix, gen_in, gen_out, arrived, open>>

\* The same stage when encoding fails: no request is built and the tokens
\* split_input took are marked failed.
EncodeFail(b) ==
    /\ Batch(b).stage = "flushed"
    /\ \A j \in 1..(b - 1) : Batch(j).stage # "flushed"
    /\ LET r == split_input(service, Batch(b).pkey, Batch(b).events)
           released == TakeFinalizers(r.events)
       IN  /\ batches' = [batches EXCEPT ![b] =
                            [@ EXCEPT !.stage = "encode_failed",
                                      !.metadata = Some(r.metadata),
                                      !.split_events = Some(r.events)]]
           /\ \E outcome \in DropOutcomes(released) :
                ResolveBoth(released, outcome,
                            MetadataFinalizers(service, r.metadata),
                            "failed")
    /\ UNCHANGED <<partVars, buildVars, callVars, encVars, service, key_prefix, uuid_next, gen_in, gen_out,
                   arrived, open>>

Finish(b, stage, status) ==
    /\ batches' = [batches EXCEPT ![b] = [@ EXCEPT !.stage = stage]]
    /\ Resolve(RequestFinalizers(service, Batch(b).request[1]), status)
    /\ UNCHANGED <<partVars, buildVars, callVars, encVars, service, key_prefix, uuid_next, gen_in, gen_out,
                   arrived, open>>

\* the backend acknowledges the write
WriteOk(b) ==
    /\ Batch(b).stage = "inflight"
    /\ Finish(b, "delivered", "delivered")

\* a retryable error with retries left: the request is sent again
WriteRetry(b) ==
    /\ Batch(b).stage = "inflight"
    /\ Batch(b).attempts <= MaxRetries
    /\ batches' = [batches EXCEPT ![b] =
                     [@ EXCEPT !.attempts = @ + 1,
                               !.writes = Append(@, RequestKey(service,
                                                     Batch(b).request[1]))]]
    /\ UNCHANGED <<partVars, buildVars, callVars, encVars, service, key_prefix, uuid_next, gen_in, gen_out,
                   arrived, open, token, resolutions>>

\* a retryable error with no retry left
RetriesExhausted(b) ==
    /\ Batch(b).stage = "inflight"
    /\ Batch(b).attempts > MaxRetries
    /\ Finish(b, "failed", "failed")

\* a fatal error
WriteFatal(b) ==
    /\ Batch(b).stage = "inflight"
    /\ Finish(b, "failed", "failed")

\* the dispatcher cancels the request
Cancel(b) ==
    /\ Batch(b).stage = "inflight"
    /\ Finish(b, "cancelled", "failed")

(***************************************************************************)
(* Event values and LogEvent.  A LogEvent is a map from top-level field    *)
(* name to value; a value is tagged with its kind (Value::Bytes,           *)
(* Value::Integer, Value::Timestamp, Value::Object).                       *)
(***************************************************************************)
Bytes(s) == [kind |-> "bytes", v |-> s]

Integer(n) == [kind |-> "integer", v |-> n]

Timestamp(t) == [kind |-> "timestamp", v |-> t]

Object(m) == [kind |-> "object", v |-> m]

as_timestamp(value) ==
    IF value.kind = "timestamp" THEN Some(value.v) ELSE None

\* LogEvent::insert: sets the field, replacing a value already there
insert(log, key, value) ==
    [k \in (DOMAIN log) \cup {key} |-> IF k = key THEN value ELSE log[k]]

\* LogEvent::remove: takes the field out and returns its value, if any
remove(log, key) ==
    IF key \in DOMAIN log
    THEN [log |-> [k \in (DOMAIN log) \ {key} |-> log[k]],
          value |-> Some(log[key])]
    ELSE [log |-> log, value |-> None]

\* LogEvent::rename_key: moves the value under `from`, if any, to `to`
rename_key(log, from, to) ==
    LET r == remove(log, from)
    IN  IF r.value = None THEN log ELSE insert(r.log, to, r.value[1])

\* the global log schema's keys, read through LogEvent
remove_timestamp(log) == remove(log, log_schema.timestamp_key)

message_path(log) == Some(log_schema.message_key)

host_path(log) == Some(log_schema.host_key)

\* LogEvent::as_map().keys()
keys(log) == DOMAIN log

(***************************************************************************)
(* Time.  A time is a number of milliseconds counted from                  *)
(* 2021-08-23T00:00:00Z, and stays within August 2021.                     *)
(***************************************************************************)
MsPerMinute == 60 * 1000
MsPerHour == 60 * MsPerMinute
MsPerDay == 24 * MsPerHour

timestamp_millis(t) == t

\* 2021-08-23T18:00:27.879+02:00, the timestamp of the events of the tests
EventTime == 57627879

DecDigits == <<"0", "1", "2", "3", "4", "5", "6", "7", "8", "9">>

RECURSIVE Dec(_, _)
Dec(n, width) ==
    IF width = 0 THEN <<>>
    ELSE Dec(n \div 10, width - 1) \o <<DecDigits[(n % 10) + 1]>>

\* DateTime<Utc>::to_rfc3339_opts(SecondsFormat::Millis, true)
to_rfc3339_opts(t) ==
    <<"2", "0", "2", "1", "-", "0", "8", "-">>
        \o Dec(23 + (t \div MsPerDay), 2) \o <<"T">>
        \o Dec((t % MsPerDay) \div MsPerHour, 2) \o <<":">>
        \o Dec((t % MsPerHour) \div MsPerMinute, 2) \o <<":">>
        \o Dec((t % MsPerMinute) \div 1000, 2) \o <<".">>
        \o Dec(t % 1000, 3) \o <<"Z">>

(***************************************************************************)
(* Byte buffers and base64.                                                *)
(***************************************************************************)
RECURSIVE Shr8(_, _)
Shr8(n, k) == IF k = 0 THEN n ELSE Shr8(n \div 256, k - 1)

\* BufMut::put_int(n, nbytes): the low nbytes bytes of n, big-endian
put_int(buf, n, nbytes) ==
    buf \o [i \in 1..nbytes |-> Shr8(n, nbytes - i) % 256]

\* BufMut::put_slice
put_slice(buf, src) == buf \o src

\* BufMut::put_u32_le: four bytes, little-endian
put_u32_le(buf, n) == buf \o [i \in 1..4 |-> Shr8(n, i - 1) % 256]

\* BufMut::put_u32: four bytes, big-endian
put_u32(buf, n) == buf \o [i \in 1..4 |-> Shr8(n, 4 - i) % 256]

Base64Alphabet ==
    <<"A", "B", "C", "D", "E", "F", "G", "H", "I", "J", "K", "L", "M",
      "N", "O", "P", "Q", "R", "S", "T", "U", "V", "W", "X", "Y", "Z",
      "a", "b", "c", "d", "e", "f", "g", "h", "i", "j", "k", "l", "m",
      "n", "o", "p", "q", "r", "s", "t", "u", "v", "w", "x", "y", "z",
      "0", "1", "2", "3", "4", "5", "6", "7", "8", "9", "+", "/">>

B64(n) == Base64Alphabet[n + 1]

\* BASE64_STANDARD.encode: three bytes to four characters, '=' padding
RECURSIVE BASE64_STANDARD_encode(_)
BASE64_STANDARD_encode(b) ==
    IF Len(b) = 0 THEN <<>>
    ELSE IF Len(b) = 1
    THEN <<B64(b[1] \div 4), B64((b[1] % 4) * 16), "=", "=">>
    ELSE IF Len(b) = 2
    THEN <<B64(b[1] \div 4), B64((b[1] % 4) * 16 + (b[2] \div 16)),
           B64((b[2] % 16) * 4), "=">>
    ELSE <<B64(b[1] \div 4), B64((b[1] % 4) * 16 + (b[2] \div 16)),
           B64((b[2] % 16) * 4 + (b[3] \div 64)), B64(b[3] % 64)>>
             \o BASE64_STANDARD_encode(SubSeq(b, 4, Len(b)))

(***************************************************************************)
(* DatadogArchivesEncoding: the record normalizer.                         *)
(***************************************************************************)
\* a list of reserved names without service
RESERVED_ATTRIBUTES_no_service ==
    {"_id", "date", "message", "host", "source", "status", "tags",
     "trace_id", "span_id"}

RESERVED_ATTRIBUTES ==
    {"_id", "date", "message", "host", "source", "service", "status",
     "tags", "trace_id", "span_id"}

\* DatadogArchivesEncoding::new with the eight bytes thread_rng() returned
new(rnd) == [id_rnd_bytes |-> rnd, id_seq_number |-> 0]

\* AtomicU32::fetch_add(1) that returns the value and adds nothing
fetch_add_lost(counter, n) == [previous |-> counter, value |-> counter]

\* AtomicU32::fetch_add: returns the previous value, wraps around
fetch_add(counter, n) ==
    [previous |-> counter, value |-> (counter + n) % SeqModulus]

generate_log_id(self, utc_now) ==
    LET id0 == put_int(<<>>, timestamp_millis(utc_now), 6)
        id1 == put_slice(id0, self.id_rnd_bytes)
        id_seq_number == fetch_add(self.id_seq_number, 1)
        id2 == put_u32(id1, id_seq_number.previous)
    IN  [self |-> [self EXCEPT !.id_seq_number = id_seq_number.value],
         id |-> BASE64_STANDARD_encode(id2)]

\* encode_input, lines 573-589, with the fields copied instead of moved
MoveCustomAttributes_copy(self, log_event) ==
    LET custom_attributes ==
            {path \in keys(log_event) : path \notin RESERVED_ATTRIBUTES}
    IN  [log_event |-> log_event,
         attributes |-> [path \in custom_attributes |-> log_event[path]]]

\* every top-level field that is not reserved leaves the event and enters
\* the attributes map under its own key
MoveCustomAttributes(self, log_event) ==
    LET custom_attributes ==
            {path \in keys(log_event) : path \notin RESERVED_ATTRIBUTES}
    IN  [log_event |-> [path \in keys(log_event) \ custom_attributes |->
                            log_event[path]],
         attributes |-> [path \in custom_attributes |-> log_event[path]]]

\* encode_input, lines 553-562, with the clock used for every event
ResolveDate_ignores_timestamp(timestamp_opt, now_ts, now_date) == now_date

\* the date the record gets: the event's timestamp if the removed field
\* holds one, the clock otherwise
ResolveDate(timestamp_opt, now_ts, now_date) ==
    LET timestamp == IF timestamp_opt = None
                     THEN Integer(timestamp_millis(now_ts))
                     ELSE timestamp_opt[1]
        ts == as_timestamp(timestamp)
    IN  IF ts = None THEN now_date ELSE ts[1]

\* the body of the loop of encode_input for one event; id is the value
\* generate_log_id returned, now_ts and now_date the two later clock reads
NormalizeEvent(self, event, id, now_ts, now_date) ==
    LET e1 == insert(event, "_id", Bytes(id))
        rt == remove_timestamp(e1)
        date == ResolveDate(rt.value, now_ts, now_date)
        e2 == insert(rt.log, "date", Bytes(to_rfc3339_opts(date)))
        mp == message_path(e2)
        e3 == IF mp = None THEN e2 ELSE rename_key(e2, mp[1], "message")
        hp == host_path(e3)
        e4 == IF hp = None THEN e3 ELSE rename_key(e3, hp[1], "host")
        moved == MoveCustomAttributes(self, e4)
    IN  insert(moved.log_event, "attributes", Object(moved.attributes))

\* the loop of encode_input: the events in order, each with the next id of
\* this encoder
RECURSIVE NormalizeAll(_, _, _, _)
NormalizeAll(self, input, utc_now, now_date) ==
    IF input = <<>> THEN [self |-> self, events |-> <<>>]
    ELSE LET g == generate_log_id(self, utc_now)
             ev == NormalizeEvent(g.self, Head(input), g.id,
                                  utc_now, now_date)
             rest == NormalizeAll(g.self, Tail(input), utc_now, now_date)
         IN  [self |-> rest.self, events |-> <<ev>> \o rest.events]

\* every field name of the model, in the byte order a BTreeMap keeps
FieldNames ==
    <<"_id", "attributes", "custom", "date", "host", "message", "msg",
      "service", "tags", "timestamp">>

\* JsonSerializer: one JSON object, its members in key order; an object
\* value is serialized the same way
RECURSIVE JsonSerialize(_)
JsonSerialize(map) ==
    LET ks == SelectSeq(FieldNames, LAMBDA k : k \in DOMAIN map)
    IN  [i \in 1..Len(ks) |->
            [key |-> ks[i],
             value |-> IF map[ks[i]].kind = "object"
                       THEN Object(JsonSerialize(map[ks[i]].v))
                       ELSE map[ks[i]]]]

\* Encoder<Framer>::encode_input with NewlineDelimitedEncoder: one line per
\* event, in the order of the events
NewlineDelimitedJson(events) ==
    [i \in 1..Len(events) |-> JsonSerialize(events[i])]

\* encode_input that writes the records last event first
encode_input_last_first(self, input, utc_now, now_date) ==
    LET r == NormalizeAll(self, input, utc_now, now_date)
        n == Len(input)
    IN  [self |-> r.self,
         ids |-> [i \in 1..n |-> r.events[i]["_id"].v],
         written |-> NewlineDelimitedJson(
                         [i \in 1..n |-> r.events[n + 1 - i]])]

encode_input(self, input, utc_now, now_date) ==
    LET r == NormalizeAll(self, input, utc_now, now_date)
    IN  [self |-> r.self,
         ids |-> [i \in 1..Len(input) |-> r.events[i]["_id"].v],
         written |-> NewlineDelimitedJson(r.events)]

(***************************************************************************)
(* The partitioner: KEY_TEMPLATE rendered with the timestamp of the event. *)
(***************************************************************************)
\* a template that buckets by day only
KEY_TEMPLATE_day_only ==
    <<"/", "d", "t", "=", "%", "Y", "%", "m", "%", "d", "/">>

KEY_TEMPLATE ==
    <<"/", "d", "t", "=", "%", "Y", "%", "m", "%", "d", "/",
      "h", "o", "u", "r", "=", "%", "H", "/">>

\* one strftime specifier, rendered for a UTC time
StrftimeField(c, t) ==
    CASE c = "Y" -> <<"2", "0", "2", "1">>
      [] c = "m" -> <<"0", "8">>
      [] c = "d" -> Dec(23 + (t \div MsPerDay), 2)
      [] c = "H" -> Dec((t % MsPerDay) \div MsPerHour, 2)
      [] OTHER -> <<"%", c>>

\* Template::render_string: the literal text of the template with every
\* strftime specifier replaced
RECURSIVE strftime(_, _)
strftime(fmt, t) ==
    IF fmt = <<>> THEN <<>>
    ELSE IF Head(fmt) = "%" /\ Len(fmt) >= 2
    THEN StrftimeField(fmt[2], t) \o strftime(SubSeq(fmt, 3, Len(fmt)), t)
    ELSE <<Head(fmt)>> \o strftime(Tail(fmt), t)

\* DateTime<FixedOffset>::with_timezone(&Utc): the instant of a wall-clock
\* time `local` read at `offset` minutes east of UTC
with_timezone_utc(dt) == dt.local - dt.offset * MsPerMinute

\* KeyPartitioner::partition: the template rendered with the timestamp of
\* the event, or with the clock if the event has none
partition(event, utc_now) ==
    LET ts == IF log_schema.timestamp_key \in DOMAIN event
              THEN as_timestamp(event[log_schema.timestamp_key])
              ELSE None
    IN  strftime(KEY_TEMPLATE, IF ts = None THEN utc_now ELSE ts[1])

(***************************************************************************)
(* Partitioner harness: events with timestamps around hour and day         *)
(* boundaries, read at several UTC offsets, and events without timestamp.  *)
(***************************************************************************)
LocalTimes ==
    {17 * MsPerHour - 1, 17 * MsPerHour, 24 * MsPerHour - 1, 24 * MsPerHour,
     EventTime + 2 * MsPerHour}

Offsets == {0, 120}

DateTimes == [local : LocalTimes, offset : Offsets]

EventAt(dto) ==
    IF dto = None THEN <<>>
    ELSE [f \in {"timestamp"} |-> Timestamp(with_timezone_utc(dto[1]))]

\* the partitioner keys one event
PartitionEvent(dto) ==
    /\ Len(part_in) < MaxParts
    /\ part_sent = None
    /\ part_in' = Append(part_in,
                         [event |-> EventAt(dto), dt |-> dto, at |-> now])
    /\ part_out' = Append(part_out, partition(EventAt(dto), now))
    /\ UNCHANGED <<part_sent, buildVars, callVars, encVars, service, key_prefix,
                   uuid_next, gen_in, gen_out, sinkVars>>

(***************************************************************************)
(* Encoder harness: encoders built by DatadogArchivesEncoding::new, a      *)
(* clock, and encode_input applied to batches of events.                   *)
(***************************************************************************)
Encoders == 1..NumEncoders

Threads == 1..NumThreads

Idle == [pc |-> "idle"]

RndChoices ==
    {<<222, 173, 190, 239, 0, 0, 0, 1>>, <<222, 173, 190, 239, 0, 0, 0, 2>>}

LogSchemas ==
    {[message_key |-> mk, host_key |-> "host", timestamp_key |-> "timestamp"]
        : mk \in {"message", "msg"}}

DefaultLogSchema ==
    [message_key |-> "message", host_key |-> "host",
     timestamp_key |-> "timestamp"]

EventFields ==
    {"timestamp", "message", "msg", "host", "service", "tags", "custom",
     "attributes"}

PairFields == {"timestamp", "custom"}

FieldValue(f) == Bytes(<<f>>)

TimestampValues == {Timestamp(EventTime), Bytes(<<"n", "o", "w">>)}

EventsOver(fields, tsvalues) ==
    {[f \in S |-> IF f = "timestamp" THEN tsv ELSE FieldValue(f)]
        : S \in SUBSET fields, tsv \in tsvalues}

Inputs ==
    {<<e>> : e \in EventsOver(EventFields, TimestampValues)}
        \cup {<<e1, e2>> :
                e1 \in EventsOver(PairFields, {Timestamp(EventTime)}),
                e2 \in EventsOver(PairFields, {Timestamp(EventTime)})}

\* the inputs of id generation: an event without fields, alone or after an
\* event with a custom field
IdInputs ==
    {<<<<>>>>, <<[f \in {"custom"} |-> FieldValue(f)], <<>>>>}

\* nothing partitioned yet
PartIdle ==
    /\ part_in = <<>>
    /\ part_out = <<>>
    /\ part_sent = None

\* the sink has been built from a configuration build_sink accepts
SinkBuilt ==
    /\ storage_class = IF service = "aws_s3" THEN Some("Standard") ELSE None
    /\ sink = Some(build_sink(service, storage_class))

\* no thread is inside generate_log_id
CallsIdle ==
    /\ calls = [t \in Threads |-> Idle]
    /\ taken = <<>>

EncIdle ==
    /\ CallsIdle
    /\ log_schema = DefaultLogSchema
    /\ encoders = [e \in Encoders |-> new(<<0, 0, 0, 0, 0, 0, 0, 0>>)]
    /\ now = StartTime
    /\ enc_by = 0
    /\ enc_in = <<>>
    /\ enc_out = <<>>
    /\ ids = <<>>

\* one call of encode_input on encoder e; the clock may move on by `late`
\* between the read in generate_log_id and the later reads
EncodeCall(e, input, late) ==
    /\ Len(ids) + Len(input) <= MaxIds
    /\ now + late <= StartTime + MaxTicks
    /\ LET r == encode_input(encoders[e], input, now, now + late)
       IN  /\ encoders' = [encoders EXCEPT ![e] = r.self]
           /\ enc_out' = r.written
           /\ ids' = ids \o [i \in 1..Len(input) |->
                                [encoder |-> e, id |-> r.ids[i], at |-> now]]
    /\ enc_by' = e
    /\ enc_in' = input
    /\ now' = now + late
    /\ UNCHANGED <<buildVars, callVars, log_schema, service, key_prefix, uuid_next,
                   gen_in, gen_out, sinkVars>>

EncodeInput(e, input, late) ==
    /\ EncodeCall(e, input, late)
    /\ UNCHANGED partVars

\* a millisecond passes
TickMs ==
    /\ now < StartTime + MaxTicks
    /\ now' = now + 1
    /\ UNCHANGED <<partVars, buildVars, callVars, log_schema, encoders, enc_by, enc_in,
                   enc_out, ids, service, key_prefix, uuid_next, gen_in,
                   gen_out, sinkVars>>

(***************************************************************************)
(* Threads that call generate_log_id on one encoder at the same time. A    *)
(* call is three steps: the statements before fetch_add, which touch only  *)
(* the call's buffer; fetch_add, one atomic read-modify-write of the       *)
(* shared counter; and the statements after it.                            *)
(***************************************************************************)
\* the encoder the threads share
SharedEncoder == 1

InCall == {t \in Threads : calls[t].pc # "idle"}

\* lines 506-512: the buffer gets the time and the random bytes
BeginId(t) ==
    /\ calls[t].pc = "idle"
    /\ Len(ids) + Cardinality(InCall) < MaxIds
    /\ calls' = [calls EXCEPT ![t] =
                   [pc |-> "fetch_add",
                    at |-> now,
                    id |-> put_slice(
                               put_int(<<>>, timestamp_millis(now), 6),
                               encoders[SharedEncoder].id_rnd_bytes)]]
    /\ UNCHANGED <<taken, partVars, buildVars, log_schema, encoders, now,
                   enc_by, enc_in, enc_out, ids, service, key_prefix,
                   uuid_next, gen_in, gen_out, sinkVars>>

\* a counter that is loaded in one step and stored in another
FetchAdd_not_atomic(t) ==
    /\ \/ /\ calls[t].pc = "fetch_add"
          /\ calls' = [calls EXCEPT ![t] =
                         [pc |-> "store", at |-> @.at, id |-> @.id,
                          id_seq_number |->
                              encoders[SharedEncoder].id_seq_number]]
          /\ UNCHANGED <<encoders, taken>>
       \/ /\ calls[t].pc = "store"
          /\ encoders' = [encoders EXCEPT ![SharedEncoder].id_seq_number =
                            (calls[t].id_seq_number + 1) % SeqModulus]
          /\ taken' = Append(taken, calls[t].id_seq_number)
          /\ calls' = [calls EXCEPT ![t] = [@ EXCEPT !.pc = "put_u32"]]
    /\ UNCHANGED <<partVars, buildVars, log_schema, now, enc_by, enc_in,
                   enc_out, ids, service, key_prefix, uuid_next, gen_in,
                   gen_out, sinkVars>>

\* line 514: self.id_seq_number.fetch_add(1, Ordering::Relaxed)
FetchAdd(t) ==
    /\ calls[t].pc = "fetch_add"
    /\ LET r == fetch_add(encoders[SharedEncoder].id_seq_number, 1)
       IN  /\ encoders' = [encoders EXCEPT
                             ![SharedEncoder].id_seq_number = r.value]
           /\ taken' = Append(taken, r.previous)
           /\ calls' = [calls EXCEPT ![t] =
                          [pc |-> "put_u32", at |-> @.at, id |-> @.id,
                           id_seq_number |-> r.previous]]
    /\ UNCHANGED <<partVars, buildVars, log_schema, now, enc_by, enc_in,
                   enc_out, ids, service, key_prefix, uuid_next, gen_in,
                   gen_out, sinkVars>>

\* lines 515-518: the counter value is written and the id returned
ReturnId(t) ==
    /\ calls[t].pc = "put_u32"
    /\ ids' = Append(ids,
                     [encoder |-> SharedEncoder,
                      id |-> BASE64_STANDARD_encode(
                                 put_u32(calls[t].id,
                                         calls[t].id_seq_number)),
                      at |-> calls[t].at])
    /\ calls' = [calls EXCEPT ![t] = Idle]
    /\ UNCHANGED <<taken, partVars, buildVars, log_schema, encoders, now,
                   enc_by, enc_in, enc_out, service, key_prefix, uuid_next,
                   gen_in, gen_out, sinkVars>>

(***************************************************************************)
(* Key generator harness: generate_object_key applied to every key prefix  *)
(* over {a, /} up to MaxPrefixLen characters and to an absent prefix.      *)
(***************************************************************************)
PrefixChars == {"a", "/"}

PrefixStrings ==
    UNION {[1..n -> PrefixChars] : n \in 0..MaxPrefixLen}

KeyPrefixes == {None} \cup {Some(p) : p \in PrefixStrings}

SinkIdle ==
    /\ arrived = 0
    /\ open = [k \in PartitionKeys |-> EmptyBatch]
    /\ batches = <<>>
    /\ token = [t \in 1..MaxEvents |-> "absent"]
    /\ resolutions = [t \in 1..MaxEvents |-> 0]

InitKey ==
    /\ service = "aws_s3"
    /\ key_prefix \in KeyPrefixes
    /\ uuid_next = 0
    /\ gen_in = <<>>
    /\ gen_out = <<>>
    /\ SinkIdle
    /\ EncIdle
    /\ PartIdle
    /\ SinkBuilt

GenerateKey(pk) ==
    /\ Len(gen_out) < MaxKeys
    /\ gen_in' = Append(gen_in,
                        [key_prefix |-> key_prefix, partition_key |-> pk])
    /\ gen_out' = Append(gen_out,
                         generate_object_key(key_prefix, pk, uuid_next))
    /\ uuid_next' = uuid_next + 1
    /\ UNCHANGED <<partVars, buildVars, callVars, encVars, service, key_prefix, sinkVars>>

NextKey == \E pk \in PartitionKeys : GenerateKey(pk)

SpecKey == InitKey /\ [][NextKey]_vars

(***************************************************************************)
(* The sink: a configured service and key prefix, events arriving, batches *)
(* flushed by size or by time, requests built and dispatched.              *)
(***************************************************************************)
SinkPrefixes == {Some(<<"a">>)}

\* the sink's events all have half the byte threshold: one event alone is
\* flushed by the timer, two with the same partition key by their size
SinkEventSizes == {50000000}

Init ==
    /\ service \in Services
    /\ key_prefix \in SinkPrefixes
    /\ uuid_next = 0
    /\ gen_in = <<>>
    /\ gen_out = <<>>
    /\ SinkIdle
    /\ EncIdle
    /\ PartIdle
    /\ SinkBuilt

Next ==
    \/ \E k \in PartitionKeys, s \in SinkEventSizes : Arrive(k, s)
    \/ \E k \in PartitionKeys : FlushBySize(k)
    \/ \E k \in PartitionKeys : FlushByTimeout(k)
    \/ Tick
    \/ \E b \in 1..Len(batches) : BuildRequest(b)
    \/ \E b \in 1..Len(batches) : EncodeFail(b)
    \/ \E b \in 1..Len(batches) : WriteOk(b)
    \/ \E b \in 1..Len(batches) : WriteRetry(b)
    \/ \E b \in 1..Len(batches) : RetriesExhausted(b)
    \/ \E b \in 1..Len(batches) : WriteFatal(b)
    \/ \E b \in 1..Len(batches) : Cancel(b)

Spec == Init /\ [][Next]_vars

\* Time passes and a timer or size trigger that is due fires; every write
\* the dispatcher has started ends with some outcome.
Flush == \E k \in PartitionKeys : FlushBySize(k) \/ FlushByTimeout(k)

Complete ==
    \E b \in 1..Len(batches) :
        WriteOk(b) \/ RetriesExhausted(b) \/ WriteFatal(b) \/ Cancel(b)

Fairness == WF_vars(Tick) /\ WF_vars(Flush) /\ WF_vars(Complete)

FairSpec == Spec /\ Fairness

(***************************************************************************)
(* The accumulator alone: events arrive, time passes, batches are flushed; *)
(* flushed batches stay in `batches` and nothing downstream runs.          *)
(***************************************************************************)
NextAcc ==
    \/ \E k \in PartitionKeys, s \in EventSizes : Arrive(k, s)
    \/ \E k \in PartitionKeys : FlushBySize(k)
    \/ \E k \in PartitionKeys : FlushByTimeout(k)
    \/ Tick

SpecAcc == Init /\ [][NextAcc]_vars

\* time passes, and a timer or size trigger that is due fires
FairSpecAcc == SpecAcc /\ WF_vars(Tick) /\ WF_vars(Flush)

(***************************************************************************)
(* The normalizer: any log schema, encoders with any random bytes, and one *)
(* call of encode_input with any input of Inputs.                          *)
(***************************************************************************)
InitEnc ==
    /\ CallsIdle
    /\ log_schema \in LogSchemas
    /\ encoders \in [Encoders -> {new(r) : r \in RndChoices}]
    /\ now = StartTime
    /\ enc_by = 0
    /\ enc_in = <<>>
    /\ enc_out = <<>>
    /\ ids = <<>>
    /\ service = "aws_s3"
    /\ key_prefix = None
    /\ uuid_next = 0
    /\ gen_in = <<>>
    /\ gen_out = <<>>
    /\ SinkIdle
    /\ PartIdle
    /\ SinkBuilt

NextEnc ==
    \/ /\ ids = <<>>
       /\ \E input \in Inputs, late \in {0, 1} : EncodeInput(1, input, late)
    \/ TickMs

SpecEnc == InitEnc /\ [][NextEnc]_vars

\* id generation alone: every encoder encodes events without fields
NextId ==
    \/ \E e \in Encoders, input \in IdInputs : EncodeInput(e, input, 0)
    \/ TickMs

SpecId == InitEnc /\ [][NextId]_vars

(***************************************************************************)
(* Concurrent id generation: the threads call generate_log_id on the       *)
(* shared encoder, their steps interleaved in any order, while time        *)
(* passes.                                                                 *)
(***************************************************************************)
InitConc ==
    /\ service = "aws_s3"
    /\ key_prefix = None
    /\ uuid_next = 0
    /\ gen_in = <<>>
    /\ gen_out = <<>>
    /\ SinkIdle
    /\ EncIdle
    /\ PartIdle
    /\ SinkBuilt

NextConc ==
    \/ \E t \in Threads : BeginId(t)
    \/ \E t \in Threads : FetchAdd(t)
    \/ \E t \in Threads : ReturnId(t)
    \/ TickMs

SpecConc == InitConc /\ [][NextConc]_vars

(***************************************************************************)
(* The partitioner alone: events are keyed while time passes.              *)
(***************************************************************************)
InitPart ==
    /\ service = "aws_s3"
    /\ key_prefix = None
    /\ uuid_next = 0
    /\ gen_in = <<>>
    /\ gen_out = <<>>
    /\ SinkIdle
    /\ EncIdle
    /\ PartIdle
    /\ SinkBuilt

NextPart ==
    \/ \E dto \in {None} \cup {Some(dt) : dt \in DateTimes} :
          PartitionEvent(dto)
    \/ TickMs

SpecPart == InitPart /\ [][NextPart]_vars

(***************************************************************************)
(* Partitioner and normalizer together: events are keyed as they arrive,   *)
(* and later the events of one partition are encoded as one batch.         *)
(***************************************************************************)
\* the events partitioned under key k, in the order they arrived
BatchOf(k) ==
    LET idx == SelectSeq([i \in 1..Len(part_in) |-> i],
                         LAMBDA i : part_out[i] = k)
    IN  [j \in 1..Len(idx) |-> part_in[idx[j]].event]

\* the request builder encodes the batch of partition k
EncodeBatch(k, late) ==
    /\ part_sent = None
    /\ BatchOf(k) # <<>>
    /\ EncodeCall(1, BatchOf(k), late)
    /\ part_sent' = Some(k)
    /\ UNCHANGED <<part_in, part_out>>

\* the events of the archive: without a timestamp, or with the one of the
\* tests
ArchDateTimes == {[local |-> EventTime + 2 * MsPerHour, offset |-> 120]}

NextArch ==
    \/ \E dto \in {None} \cup {Some(dt) : dt \in ArchDateTimes} :
          PartitionEvent(dto)
    \/ \E k \in {part_out[i] : i \in 1..Len(part_out)}, late \in {0, 1} :
          EncodeBatch(k, late)
    \/ TickMs

SpecArch == InitPart /\ [][NextArch]_vars

(***************************************************************************)
(* The sink from its configuration on: any service name, any S3 storage    *)
(* class, build_sink, and then the sink as in Spec.                        *)
(***************************************************************************)
ConfiguredServices == Services \cup {"elasticsearch"}

InitBuild ==
    /\ service \in ConfiguredServices
    /\ storage_class \in IF service = "aws_s3"
                         THEN {Some(c) : c \in S3StorageClasses}
                         ELSE {None}
    /\ sink = None
    /\ key_prefix \in SinkPrefixes
    /\ uuid_next = 0
    /\ gen_in = <<>>
    /\ gen_out = <<>>
    /\ SinkIdle
    /\ EncIdle
    /\ PartIdle

NextBuild ==
    \/ BuildSink
    \/ Next

SpecBuild == InitBuild /\ [][NextBuild]_vars

(***************************************************************************)
(* Claims about the sink pipeline.                                         *)
(***************************************************************************)
Tokens == 1..MaxEvents

BatchIds == 1..Len(batches)

OpenTokens == UNION {TakeFinalizers(open[k].events) : k \in PartitionKeys}

HasRequest(b) == batches[b].request # None

\* C1: a delivery token is marked successful only when the request that
\* carries its batch has been written and acknowledged by the backend:
\* never while the batch is accumulating, being built, in flight, or after
\* a failed write.
C1_AckOnlyAfterWrite ==
    \A t \in Tokens :
        token[t] = "delivered" =>
            \E b \in BatchIds :
                /\ t \in batches[b].tokens
                /\ batches[b].stage = "delivered"

\* one batch is acknowledged while the token of an accumulating event and
\* nothing else is pending
C1_Witness ==
    \E t1, t2 \in Tokens :
        /\ token[t1] = "delivered"
        /\ token[t2] = "pending"
        /\ t2 \in OpenTokens

\* C6: for each of the three builders, the tokens on the metadata that
\* split_input returns and on the request that build_request returns are
\* exactly the tokens of the events of the batch, the events split_input
\* returns carry none, and this also holds when encoding fails; no token is
\* on two requests.
C6_TokensPreserved ==
    /\ \A b \in BatchIds :
        /\ batches[b].metadata # None =>
             /\ MetadataFinalizers(service, batches[b].metadata[1])
                    = batches[b].tokens
             /\ TakeFinalizers(batches[b].split_events[1]) = {}
             /\ Len(batches[b].split_events[1]) = Len(batches[b].events)
        /\ HasRequest(b) =>
             RequestFinalizers(service, batches[b].request[1])
                 = batches[b].tokens
        /\ batches[b].stage # "flushed" => batches[b].metadata # None
        /\ batches[b].stage \notin {"flushed", "encode_failed"}
               => HasRequest(b)
    /\ \A b1, b2 \in BatchIds :
        (b1 # b2 /\ HasRequest(b1) /\ HasRequest(b2)) =>
            RequestFinalizers(service, batches[b1].request[1])
                \cap RequestFinalizers(service, batches[b2].request[1]) = {}

\* a GCS request built from a batch of two events, carrying both tokens,
\* while the events split_input returned carry none
C6_Witness ==
    \E b \in BatchIds :
        /\ service = "gcp_cloud_storage"
        /\ HasRequest(b)
        /\ Cardinality(batches[b].tokens) = 2
        /\ RequestFinalizers(service, batches[b].request[1])
               = batches[b].tokens
        /\ TakeFinalizers(batches[b].split_events[1]) = {}

\* the request of batch b is with the dispatcher
Dispatched(b) == b \in BatchIds /\ batches[b].stage = "inflight"

\* every token of batch b's request has an outcome
RequestResolved(b) ==
    /\ b \in BatchIds
    /\ HasRequest(b)
    /\ \A t \in RequestFinalizers(service, batches[b].request[1]) :
           token[t] \in {"delivered", "failed"}

\* C7: every delivery token attached to a dispatched request is eventually
\* resolved and is resolved exactly once: with success when the backend
\* acknowledged the write, with failure when the retries are exhausted,
\* the error is fatal or the request is cancelled.
C7_ResolvedExactlyOnce ==
    /\ [](\A t \in Tokens : resolutions[t] <= 1)
    /\ [](\A b \in BatchIds : \A t \in batches[b].tokens :
            /\ batches[b].stage = "delivered" =>
                 token[t] = "delivered" /\ resolutions[t] = 1
            /\ batches[b].stage \in {"failed", "cancelled"} =>
                 token[t] = "failed" /\ resolutions[t] = 1
            /\ batches[b].stage = "inflight" =>
                 token[t] = "pending" /\ resolutions[t] = 0)
    /\ \A b \in 1..MaxEvents : Dispatched(b) ~> RequestResolved(b)

\* a request that failed after its retries were used up, its two tokens
\* resolved once each
C7_Witness ==
    \E b \in BatchIds :
        /\ batches[b].stage = "failed"
        /\ batches[b].attempts > MaxRetries
        /\ Cardinality(batches[b].tokens) = 2
        /\ \A t \in batches[b].tokens :
               token[t] = "failed" /\ resolutions[t] = 1

\* C8: the tokens of the events of one flushed batch are all unresolved,
\* all acknowledged or all failed: never some with one outcome and others
\* with another.
C8_AllOrNothing ==
    \A b \in BatchIds :
        \A t1, t2 \in batches[b].tokens : token[t1] = token[t2]

\* a batch of two events acknowledged, and a batch of two events failed
C8_Witness ==
    \E b \in BatchIds :
        /\ Cardinality(batches[b].tokens) = 2
        /\ batches[b].stage = "failed"
        /\ \A t \in batches[b].tokens : token[t] = "failed"

Front(q) == SubSeq(q, 1, Len(q) - 1)

\* C9: with the default byte threshold of 100,000,000 and no event-count
\* limit, a batch whose size estimate has reached or crossed the threshold
\* accepts no further event: every event was accepted into a batch that
\* was below the threshold, a batch flushed by size had reached it, and a
\* later event of the same partition key is in a new batch.
C9_SizeFlush ==
    /\ \A k \in PartitionKeys :
        /\ open[k].size = SumSizes(open[k].events)
        /\ IsOpen(k) => SumSizes(Front(open[k].events)) < 100000000
    /\ \A b \in BatchIds :
        /\ batches[b].size = SumSizes(batches[b].events)
        /\ SumSizes(Front(batches[b].events)) < 100000000
        /\ batches[b].cause = "size" => batches[b].size >= 100000000
        /\ batches[b].events # <<>>

\* a batch was flushed when its size reached the threshold and a later
\* event of the same partition key is accumulating in a new batch
C9_Witness ==
    \E b \in BatchIds :
        /\ batches[b].cause = "size"
        /\ batches[b].size >= 100000000
        /\ IsOpen(batches[b].pkey)
        /\ open[batches[b].pkey].events[1].id > batches[b].events[1].id

\* the batch that holds token t has been flushed
IsFlushed(t) == \E b \in BatchIds : t \in batches[b].tokens

\* C10: with the default timeout of 900 seconds, a batch whose size never
\* reaches the byte threshold is flushed; it is flushed when it has been
\* open for 900 seconds or more and never earlier; and a batch whose
\* timeout is due is not changed or dropped, it is flushed as it is.
C10_TimeFlush ==
    /\ [](\A b \in BatchIds :
            batches[b].size < 100000000 =>
                batches[b].cause = "timeout" /\ batches[b].age >= 900)
    /\ \A t \in Tokens : (t \in OpenTokens) ~> IsFlushed(t)
    /\ [][\A k \in PartitionKeys :
            (IsOpen(k) /\ open[k].age >= 900) =>
                \/ open'[k] = open[k]
                \/ /\ open'[k] = EmptyBatch
                   /\ Len(batches') = Len(batches) + 1
                   /\ batches'[Len(batches')].events = open[k].events
                   /\ batches'[Len(batches')].pkey = k]_vars

\* a batch below the byte threshold was flushed by its timer after 900
\* seconds or more
C10_Witness ==
    \E b \in BatchIds :
        /\ batches[b].cause = "timeout"
        /\ batches[b].size < 100000000
        /\ batches[b].age >= 900

(***************************************************************************)
(* Claims about the object key generator.                                  *)
(***************************************************************************)
\* C2: any two invocations of generate_object_key return distinct object
\* keys, also when the key prefix and the partition key are the same
\* (Uuid::new_v4 never returns a value it returned before).
C2_DistinctKeys ==
    \A i, j \in 1..Len(gen_out) : i # j => gen_out[i] # gen_out[j]

\* two keys were generated for the same key prefix and partition key
C2_Witness ==
    /\ Len(gen_out) = 2
    /\ gen_in[1] = gen_in[2]
    /\ gen_out[1] # gen_out[2]

\* C3: the string generate_object_key returns contains no "//", whatever
\* the key prefix (absent, empty, with or without a trailing "/") and the
\* partition key.
C3_NoDoubleSlash ==
    \A i \in 1..Len(gen_out) : ~contains(gen_out[i], SLASHSLASH)

(***************************************************************************)
(* Claims about the record normalizer.                                     *)
(***************************************************************************)
\* the keys of a serialized JSON object
KeysOf(obj) == {obj[i].key : i \in 1..Len(obj)}

\* the member of a serialized JSON object under a key
Member(obj, key) == (CHOOSE i \in 1..Len(obj) : obj[i].key = key)

\* the reserved fields an input event carries: those under a reserved name
\* and those the log schema gives the message or the host meaning
ReservedPresent(event) ==
    ((DOMAIN event) \cap
        {"message", "host", "source", "service", "status", "tags",
         "trace_id", "span_id"})
    \cup (IF log_schema.message_key \in DOMAIN event
          THEN {"message"} ELSE {})
    \cup (IF log_schema.host_key \in DOMAIN event THEN {"host"} ELSE {})

\* C4: for every input event the record encode_input writes has exactly the
\* top-level keys _id, date, attributes and the reserved fields present in
\* the event; no other key stays at top level and no reserved name is a key
\* of attributes.
C4_TopLevelKeys ==
    \A i \in 1..Len(enc_out) :
        LET rec == enc_out[i]
            attributes == rec[Member(rec, "attributes")].value
        IN  /\ KeysOf(rec) = {"_id", "date", "attributes"}
                                \cup ReservedPresent(enc_in[i])
            /\ KeysOf(rec) \subseteq RESERVED_ATTRIBUTES \cup {"attributes"}
            /\ attributes.kind = "object"
            /\ KeysOf(attributes.v) \cap RESERVED_ATTRIBUTES = {}

\* an event with a timestamp, a message, a reserved field and a custom
\* field has been normalized: the custom field is under attributes only
C4_Witness ==
    /\ Len(enc_out) = 1
    /\ DOMAIN enc_in[1] = {"timestamp", "message", "service", "custom"}
    /\ KeysOf(enc_out[1]) = {"_id", "date", "message", "service", "attributes"}
    /\ KeysOf(enc_out[1][Member(enc_out[1], "attributes")].value.v)
          = {"custom"}

\* the number of ids an encoder has generated
Emitted(e) == Cardinality({i \in 1..Len(ids) : ids[i].encoder = e})

RECURSIVE DecValue(_)
DecValue(ds) ==
    IF ds = <<>> THEN 0
    ELSE 10 * DecValue(SubSeq(ds, 1, Len(ds) - 1))
            + ((CHOOSE d \in 1..10 : DecDigits[d] = ds[Len(ds)]) - 1)

\* s is a date of August 2021 written YYYY-MM-DDTHH:MM:SS.mmmZ
IsRfc3339Millis(s) ==
    /\ Len(s) = 24
    /\ SubSeq(s, 1, 8) = <<"2", "0", "2", "1", "-", "0", "8", "-">>
    /\ s[11] = "T" /\ s[14] = ":" /\ s[17] = ":" /\ s[20] = "." /\ s[24] = "Z"
    /\ \A i \in {9, 10, 12, 13, 15, 16, 18, 19, 21, 22, 23} :
          \E d \in 1..10 : DecDigits[d] = s[i]
    /\ DecValue(SubSeq(s, 12, 13)) < 24
    /\ DecValue(SubSeq(s, 15, 16)) < 60
    /\ DecValue(SubSeq(s, 18, 19)) < 60

\* the time such a date denotes, in milliseconds from 2021-08-23T00:00:00Z
DateMillis(s) ==
    (DecValue(SubSeq(s, 9, 10)) - 23) * 86400000
        + DecValue(SubSeq(s, 12, 13)) * 3600000
        + DecValue(SubSeq(s, 15, 16)) * 60000
        + DecValue(SubSeq(s, 18, 19)) * 1000
        + DecValue(SubSeq(s, 21, 23))

\* the date of a written record, as a string
DateOf(rec) == rec[Member(rec, "date")].value.v

\* the event carries a timestamp: its timestamp field holds one
CarriesTimestamp(event) ==
    /\ log_schema.timestamp_key \in DOMAIN event
    /\ event[log_schema.timestamp_key].kind = "timestamp"

\* the clock when the last call of encode_input began
CallStart == ids[Len(ids)].at

\* C12: encode_input writes one record per event, without error; its date
\* is an RFC3339 string with milliseconds and the suffix Z, which denotes
\* the timestamp of the event if it carries one and otherwise a time the
\* clock showed during the call.
C12_DateResolved ==
    /\ Len(enc_out) = Len(enc_in)
    /\ \A i \in 1..Len(enc_out) :
        /\ "date" \in KeysOf(enc_out[i])
        /\ IsRfc3339Millis(DateOf(enc_out[i]))
        /\ IF CarriesTimestamp(enc_in[i])
           THEN DateMillis(DateOf(enc_out[i]))
                    = enc_in[i][log_schema.timestamp_key].v
           ELSE /\ CallStart <= DateMillis(DateOf(enc_out[i]))
                /\ DateMillis(DateOf(enc_out[i])) <= now

\* a batch of an event with the timestamp of the test and an event without
\* timestamp: the first is dated 2021-08-23T16:00:27.879Z, the second with
\* the clock, which had passed the hour during the call
C12_Witness ==
    /\ Len(enc_out) = 2
    /\ CarriesTimestamp(enc_in[1])
    /\ DOMAIN enc_in[2] = {}
    /\ DateOf(enc_out[1]) =
          <<"2", "0", "2", "1", "-", "0", "8", "-", "2", "3", "T", "1", "6",
            ":", "0", "0", ":", "2", "7", ".", "8", "7", "9", "Z">>
    /\ DateOf(enc_out[2]) =
          <<"2", "0", "2", "1", "-", "0", "8", "-", "2", "3", "T", "1", "7",
            ":", "0", "0", ":", "0", "0", ".", "0", "0", "0", "Z">>

(***************************************************************************)
(* Claims about the partitioner.                                           *)
(***************************************************************************)
\* the partitioned events that carry a timestamp
Stamped == {i \in 1..Len(part_in) : part_in[i].dt # None}

\* the number of the UTC hour the timestamp of the i-th event falls in
UtcHour(i) ==
    (part_in[i].dt[1].local - part_in[i].dt[1].offset * 60000) \div 3600000

\* C11: the partition key depends on the UTC day and hour of the timestamp
\* only: two timestamps in the same UTC hour get the same key and two
\* timestamps in adjacent UTC hours get different keys, whatever the UTC
\* offsets they were read at.
C11_PartitionByUtcHour ==
    \A i, j \in Stamped :
        /\ UtcHour(i) = UtcHour(j) => part_out[i] = part_out[j]
        /\ (UtcHour(i) = UtcHour(j) + 1) => part_out[i] # part_out[j]

\* the timestamp of the test, read at +02:00, and the last millisecond of
\* the same UTC hour read at UTC share the key /dt=20210823/hour=16/, and
\* the first millisecond of the next hour has another key
C11_Witness ==
    /\ Len(part_in) = 3
    /\ part_in[1].dt = Some([local |-> EventTime + 2 * MsPerHour,
                             offset |-> 120])
    /\ part_in[2].dt = Some([local |-> 17 * MsPerHour - 1, offset |-> 0])
    /\ part_in[3].dt = Some([local |-> 17 * MsPerHour, offset |-> 0])
    /\ part_out[1] = PK16
    /\ part_out[2] = PK16
    /\ part_out[3] = PK17

(***************************************************************************)
(* Claims about building the sink.                                         *)
(***************************************************************************)
\* C13: building the S3 sink fails with 'Unsupported storage class:
\* <class>' if the storage class is Glacier or DeepArchive and succeeds for
\* every other storage class; a configuration that was refused has no
\* sink, so no event is accepted and no batch or request exists for it.
C13_StorageClassRejected ==
    /\ (sink # None /\ service = "aws_s3") =>
          IF storage_class[1] \in {"Glacier", "DeepArchive"}
          THEN /\ ~sink[1].ok
               /\ sink[1].error =
                     <<"Unsupported storage class: ", storage_class[1]>>
          ELSE sink[1].ok
    /\ ~SinkRunning =>
          /\ arrived = 0
          /\ batches = <<>>
          /\ \A k \in PartitionKeys : ~IsOpen(k)

\* build_sink has refused a configuration with storage class Glacier
C13_Witness ==
    /\ service = "aws_s3"
    /\ storage_class = Some("Glacier")
    /\ sink # None
    /\ ~sink[1].ok
    /\ sink[1].error = <<"Unsupported storage class: ", "Glacier">>

(***************************************************************************)
(* Claims about the layout of the object key.                              *)
(***************************************************************************)
\* the hyphenated form of a UUID: 36 characters, hyphens after the 8th,
\* 12th, 16th and 20th hexadecimal digit
IsUuidString(u) ==
    /\ Len(u) = 36
    /\ \A i \in 1..36 :
          IF i \in {9, 14, 19, 24}
          THEN u[i] = "-"
          ELSE \E d \in 1..16 : u[i] = HexDigits[d]

\* the key is prefix + partition key + "archive_" + a UUID + ".json.gz"
HasKeyLayout(key, prefix, partition_key) ==
    LET p == Len(prefix)
        q == p + Len(partition_key)
    IN  /\ Len(key) = q + 8 + 36 + 8
        /\ SubSeq(key, 1, p) = prefix
        /\ SubSeq(key, p + 1, q) = partition_key
        /\ SubSeq(key, q + 1, q + 8)
              = <<"a", "r", "c", "h", "i", "v", "e", "_">>
        /\ IsUuidString(SubSeq(key, q + 9, q + 44))
        /\ SubSeq(key, q + 45, q + 52)
              = <<".", "j", "s", "o", "n", ".", "g", "z">>

\* the prefix a call of generate_object_key was given; none is the empty one
PrefixOf(i) ==
    IF gen_in[i].key_prefix = None THEN <<>> ELSE gen_in[i].key_prefix[1]

EndsInSlash(p) == p # <<>> /\ p[Len(p)] = "/"

\* C14 as stated: for every key prefix that does not end in "/", and for an
\* absent prefix, the object key is the prefix, the partition key
\* "/dt=YYYYMMDD/hour=HH/", "archive_", a 36-character UUID and ".json.gz".
C14_KeyLayout ==
    \A i \in 1..Len(gen_out) :
        ~EndsInSlash(PrefixOf(i)) =>
            HasKeyLayout(gen_out[i], PrefixOf(i), gen_in[i].partition_key)

\* C14: for every key prefix that neither ends in "/" nor contains "//",
\* and for an absent prefix, the object key is the prefix, the partition
\* key "/dt=YYYYMMDD/hour=HH/", "archive_", a 36-character UUID and
\* ".json.gz".
C14_KeyLayoutOfPlainPrefix ==
    \A i \in 1..Len(gen_out) :
        (~EndsInSlash(PrefixOf(i)) /\ ~contains(PrefixOf(i), SLASHSLASH)) =>
            HasKeyLayout(gen_out[i], PrefixOf(i), gen_in[i].partition_key)

\* keys were generated for the prefix "/a" and then again for the same sink
C14_Witness ==
    /\ Len(gen_out) = 2
    /\ gen_in[1].key_prefix = Some(<<"/", "a">>)
    /\ HasKeyLayout(gen_out[2], <<"/", "a">>, gen_in[2].partition_key)

(***************************************************************************)
(* Claims about the bytes of the _id.                                      *)
(***************************************************************************)
\* the 6-bit value of each character of the standard base64 alphabet
Base64Values ==
    [ch \in {Base64Alphabet[n] : n \in 1..64} |->
        (CHOOSE n \in 1..64 : Base64Alphabet[n] = ch) - 1]

B64Value(ch) == Base64Values[ch]

IsBase64(s) ==
    /\ Len(s) % 4 = 0
    /\ \A i \in 1..Len(s) : s[i] \in DOMAIN Base64Values

\* the bytes an unpadded base64 string stands for, four characters at a time
RECURSIVE Base64Decode(_)
Base64Decode(s) ==
    IF Len(s) < 4 THEN <<>>
    ELSE LET a == B64Value(s[1])
             b == B64Value(s[2])
             c == B64Value(s[3])
             d == B64Value(s[4])
         IN  <<a * 4 + (b \div 16), (b % 16) * 16 + (c \div 4),
               (c % 4) * 64 + d>>
                 \o Base64Decode(SubSeq(s, 5, Len(s)))

\* the number a sequence of bytes denotes in big-endian order
RECURSIVE BigEndian(_)
BigEndian(bytes) ==
    IF bytes = <<>> THEN 0
    ELSE 256 * BigEndian(SubSeq(bytes, 1, Len(bytes) - 1))
            + bytes[Len(bytes)]

\* how many ids the encoder of the i-th id generated before it
EmittedBefore(i) ==
    Cardinality({j \in 1..(i - 1) : ids[j].encoder = ids[i].encoder})

\* C15: every _id is the base64-standard encoding of exactly 18 bytes: the
\* time of generation in milliseconds in 6 bytes, big-endian, then the 8
\* random bytes of the encoder, then the sequence counter of the encoder in
\* 4 bytes, big-endian; the leading 6 bytes are a time no later than the
\* clock and no more than MaxTicks milliseconds before it.
C15_IdLayout ==
    \A i \in 1..Len(ids) :
        /\ IsBase64(ids[i].id)
        /\ LET bytes == Base64Decode(ids[i].id)
               stamp == BigEndian(SubSeq(bytes, 1, 6))
           IN  /\ Len(bytes) = 18
               /\ \A k \in 1..18 : bytes[k] \in 0..255
               /\ stamp = ids[i].at
               /\ stamp <= now
               /\ now - stamp <= MaxTicks
               /\ SubSeq(bytes, 7, 14) = encoders[ids[i].encoder].id_rnd_bytes
               /\ BigEndian(SubSeq(bytes, 15, 18))
                     = EmittedBefore(i) % SeqModulus

\* an encoder has generated ids in two different milliseconds, the second
\* with a sequence counter that is not zero
C15_Witness ==
    /\ Len(ids) >= 2
    /\ ids[1].encoder = ids[2].encoder
    /\ ids[1].at < ids[2].at
    /\ ids[2].at = now
    /\ BigEndian(SubSeq(Base64Decode(ids[2].id), 15, 18)) = 1

(***************************************************************************)
(* Claims about compression.                                               *)
(***************************************************************************)
GZIP == [algorithm |-> "gzip", level |-> "default"]

\* C16: every Request built by one of the three request builders declares
\* gzip: compression() of the builder is the gzip default, and the
\* content-encoding of the request is gzip, whatever the configuration of
\* the sink and the events and payload of the batch.
C16_AlwaysGzip ==
    \A b \in BatchIds :
        HasRequest(b) =>
            /\ batches[b].compression = Some(GZIP)
            /\ RequestContentEncoding(service, batches[b].request[1])
                  = Some("gzip")

\* an S3 sink with storage class OnezoneIa has built the request of a
\* batch of two events
C16_Witness ==
    /\ service = "aws_s3"
    /\ storage_class = Some("OnezoneIa")
    /\ \E b \in BatchIds :
          /\ HasRequest(b)
          /\ Len(batches[b].events) = 2
          /\ batches[b].request[1].content_encoding = Some("gzip")

(***************************************************************************)
(* Claims about the object keys of write attempts.                         *)
(***************************************************************************)
\* the write attempts made so far: batch and number of the attempt
WriteAttempts ==
    {w \in BatchIds \X (1..(MaxRetries + 1)) :
        w[2] <= Len(batches[w[1]].writes)}

DateDayHour(s) == SubSeq(s, 9, 10) \o SubSeq(s, 12, 13)

KeyDayHour(k) == SubSeq(k, 11, 12) \o SubSeq(k, 19, 20)

\* C18: for every event, with or without a timestamp, the UTC day and hour
\* of the date of its record equal the day and hour of the partition key of
\* the batch that contains it.
C18_DateInPartition ==
    part_sent # None =>
        \A i \in 1..Len(enc_out) :
            DateDayHour(DateOf(enc_out[i])) = KeyDayHour(part_sent[1])

(***************************************************************************)
(* Claims about the contents of attributes.                                *)
(***************************************************************************)
\* the fields of an input event that are neither reserved names nor the
\* consumed timestamp, message or host field of the log schema
CustomFields(event) ==
    (DOMAIN event) \
        ({"_id", "date", "message", "host", "source", "service", "status",
          "tags", "trace_id", "span_id"}
         \cup {log_schema.timestamp_key, log_schema.message_key,
               log_schema.host_key})

\* the value of a member of a serialized JSON object
ValueOf(obj, key) == obj[Member(obj, key)].value

\* C19: after normalization, attributes holds exactly the fields of the
\* input event that are neither reserved names nor the consumed timestamp,
\* message or host field, each under its key with its value; none of them
\* is left at top level (the key attributes holds the map, not a field of
\* the event), and the reserved fields source, service, status, tags,
\* trace_id and span_id keep their values at top level.
C19_AttributesContent ==
    \A i \in 1..Len(enc_out) :
        LET event == enc_in[i]
            rec == enc_out[i]
            attributes == ValueOf(rec, "attributes").v
        IN  /\ KeysOf(attributes) = CustomFields(event)
            /\ \A k \in CustomFields(event) :
                  /\ ValueOf(attributes, k) = event[k]
                  /\ k \in KeysOf(rec) =>
                        (k = "attributes" /\ ValueOf(rec, k) # event[k])
            /\ \A k \in {"source", "service", "status", "tags", "trace_id",
                         "span_id"} \cap DOMAIN event :
                  /\ k \in KeysOf(rec)
                  /\ ValueOf(rec, k) = event[k]

\* an event with the fields custom and attributes beside a timestamp, a
\* message under the schema's key msg and two reserved fields was
\* normalized
C19_Witness ==
    /\ Len(enc_out) = 1
    /\ log_schema.message_key = "msg"
    /\ DOMAIN enc_in[1]
          = {"timestamp", "msg", "service", "tags", "custom", "attributes"}
    /\ KeysOf(ValueOf(enc_out[1], "attributes").v) = {"custom", "attributes"}
    /\ ValueOf(enc_out[1], "service") = enc_in[1]["service"]

(***************************************************************************)
(* Claims about the order of the records of a batch.                       *)
(***************************************************************************)
\* the sequence counter in the _id of a written record
SeqOf(rec) == BigEndian(SubSeq(Base64Decode(ValueOf(rec, "_id").v), 15, 18))

\* C20: the records of an encoded batch are in the order of its events: the
\* i-th line is the normalization of the i-th event and carries the i-th id
\* generated in the call, and the sequence counter grows by one from each
\* line to the next, wrapping around at the modulus of the counter.
C20_OrderPreserved ==
    /\ Len(enc_out) = Len(enc_in)
    /\ \A i \in 1..Len(enc_out) :
          LET attributes == ValueOf(enc_out[i], "attributes").v
          IN  /\ KeysOf(attributes) = CustomFields(enc_in[i])
              /\ \A k \in CustomFields(enc_in[i]) :
                    ValueOf(attributes, k) = enc_in[i][k]
              /\ ValueOf(enc_out[i], "_id").v
                    = ids[Len(ids) - Len(enc_in) + i].id
    /\ \A i \in 1..(Len(enc_out) - 1) :
          SeqOf(enc_out[i + 1]) = (SeqOf(enc_out[i]) + 1) % SeqModulus

\* a batch of an event with a custom field and an event without fields was
\* encoded while the counter wrapped around
C20_Witness ==
    /\ Len(enc_out) = 2
    /\ DOMAIN enc_in[1] = {"custom"}
    /\ DOMAIN enc_in[2] = {}
    /\ SeqOf(enc_out[1]) = SeqModulus - 1
    /\ SeqOf(enc_out[2]) = 0

(***************************************************************************)
(* Claims about the independence of the open batches.                      *)
(***************************************************************************)
\* this step appends an event to the open batch of k
Appends(k) == Len(open'[k].events) = Len(open[k].events) + 1

\* this step flushes the open batch of k
Flushes(k) ==
    /\ Len(batches') = Len(batches) + 1
    /\ batches'[Len(batches')].pkey = k

\* C21: open batches of different partition keys are independent: every
\* open and every flushed batch holds events of one partition key only; a
\* step that appends to or flushes the batch of one key leaves the events,
\* size estimate and open time of every other open batch unchanged; a
\* flush emits the batch as it is and leaves its key Empty, and the next
\* event of that key opens a new batch.
C21_IndependentBatches ==
    /\ [](/\ \A k \in PartitionKeys : \A i \in 1..Len(open[k].events) :
                open[k].events[i].partition = k
          /\ \A b \in BatchIds : \A i \in 1..Len(batches[b].events) :
                batches[b].events[i].partition = batches[b].pkey)
    /\ [][\A k \in PartitionKeys :
            (Appends(k) \/ Flushes(k)) =>
                \A j \in PartitionKeys \ {k} : open'[j] = open[j]]_vars
    /\ [][\A k \in PartitionKeys :
            Flushes(k) =>
                /\ IsOpen(k)
                /\ batches'[Len(batches')].events = open[k].events
                /\ batches'[Len(batches')].size = open[k].size
                /\ open'[k] = EmptyBatch
                /\ Front(batches') = batches]_vars
    /\ [][\A k \in PartitionKeys :
            (Appends(k) /\ ~IsOpen(k)) =>
                /\ Len(open'[k].events) = 1
                /\ open'[k].size = open'[k].events[1].size
                /\ open'[k].age = 0
                /\ \A b \in BatchIds :
                      \A i \in 1..Len(batches[b].events) :
                          batches[b].events[i].id # open'[k].events[1].id]_vars

\* the batch of one partition key was flushed while the batch of the other
\* key, opened before, is still open with its event, size and open time
C21_Witness ==
    \E b \in BatchIds : \E j \in PartitionKeys :
        /\ j # batches[b].pkey
        /\ ~IsOpen(batches[b].pkey)
        /\ IsOpen(j)
        /\ open[j].events[1].id < batches[b].events[1].id
        /\ open[j].size = open[j].events[1].size
        /\ open[j].age > 0

(***************************************************************************)
(* Claims about concurrent calls of generate_log_id.                       *)
(***************************************************************************)
\* the counter of the encoder the threads share
SharedCounter == encoders[SharedEncoder].id_seq_number

\* the sequence numbers of the ids returned so far
ReturnedSeqs ==
    {BigEndian(SubSeq(Base64Decode(ids[i].id), 15, 18)) : i \in 1..Len(ids)}

\* C22: concurrent calls of generate_log_id on one encoder are safe: under
\* every interleaving each call takes the current value of the counter and
\* adds exactly 1 to it in one step, wrapping to 0 after the largest value;
\* so the n-th call to reach the counter gets n - 1 modulo the modulus, the
\* counter equals the number of calls that reached it (no increment is
\* lost), and fewer calls than the modulus never get the same number.
C22_AtomicCounter ==
    /\ [](/\ \A n \in 1..Len(taken) : taken[n] = (n - 1) % SeqModulus
          /\ SharedCounter = Len(taken) % SeqModulus
          /\ Len(taken) < SeqModulus =>
                \A m, n \in 1..Len(taken) : m # n => taken[m] # taken[n]
          /\ \A t \in InCall :
                calls[t].pc = "put_u32" =>
                    \E n \in 1..Len(taken) :
                        taken[n] = calls[t].id_seq_number
          /\ ReturnedSeqs \subseteq {taken[n] : n \in 1..Len(taken)})
    /\ [][SharedCounter' # SharedCounter =>
            /\ SharedCounter' = (SharedCounter + 1) % SeqModulus
            /\ taken' = Append(taken, SharedCounter)]_vars

\* two threads are inside generate_log_id at once, each past fetch_add; the
\* counter wrapped around between their two operations
C22_Witness ==
    /\ InCall = {1, 2}
    /\ calls[1].pc = "put_u32"
    /\ calls[2].pc = "put_u32"
    /\ calls[2].id_seq_number = SeqModulus - 1
    /\ calls[1].id_seq_number = 0
    /\ Len(taken) = SeqModulus + 1

====
